---- MODULE Spec2Model ----
(***************************************************************************)
(* ZKTeco check-in synchronisation: the punch normalizer                   *)
(* (adjust_checkin_sequence), the upsert gates, the sync passes with their *)
(* cache lock, and the repair passes over stored Employee Checkin rows.    *)
(*                                                                         *)
(* Two copies of zkteco_config.py exist in the repository.  The copy in    *)
(* the package hooks.py names (zkteco_checkins_sync/zkteco_checkin_sync)   *)
(* is modelled under the source's names; definitions of the copy at the    *)
(* repository root carry the suffix _root.                                 *)
(***************************************************************************)
EXTENDS Integers, Sequences, FiniteSets, TLC

\* ------------------------------------------------------------------ bounds
MaxLen == 4          \* longest transaction list handed to the normalizer
MaxRows == 3         \* most Employee Checkin rows in a store a repair pass starts from
MaxLog == 4          \* most punches the device holds
MaxSynced == 4       \* cap on total_synced_records in API mode
MaxItems == 2          \* items of a mapping handed to detect_log_type
MaxDeviceSynced == 7 \* cap on total_synced_records in device mode

\* ------------------------------------------------------------- value sets
\* A punch time is a datetime: a calendar date and a time of day.
DateTimes == {<<0, 0>>, <<0, 1>>, <<0, 2>>, <<1, 0>>}

NoEmp == "none"      \* emp_code missing or falsy
NoTime == <<>>       \* no time field present
EmpCodes == {"E1"}
NoLabel == "NONE"    \* log_type absent, or not one of IN / OUT
NoDisplay == <<>>    \* punch_state_display absent or empty

\* A device_id is "<ip>:<port>" for a row of the device gate and
\* "<alias> (ZKTeco-<id>)" for a row of the API gate, kept as
\* <<ip or alias, port or 0, transaction id or 0>>.  The LIKE patterns of the
\* repair passes test for the substrings "111.88.28.220:4370" and ":4370".
FixedDevice == <<"111.88.28.220", 4370, 0>>
OtherDevice == <<"192.168.1.201", 4370, 0>>
Employees == {"EMP-1"}
NoEmployee == "no employee"

\* the Employee master data find_employee_by_code searches
EmployeeTable ==
    {[name |-> "EMP-1", employee |-> "E1", user_id |-> "u1",
      attendance_device_id |-> "7"]}

\* the Employee doctype of the modelled site: one employee, and the custom
\* field attendance_device_id is installed
EmployeeDoctype ==
    [rows |-> EmployeeTable,
     columns |-> {"name", "employee", "user_id", "attendance_device_id"}]

\* what a punch can be: the employee code the device reports (E9 is a code
\* nobody maps to) and the label the REST API reports for the punch
PunchKinds ==
    {<<"E1", NoLabel>>, <<"E1", "IN">>, <<"E1", "OUT">>, <<"E9", NoLabel>>}

\* terminal_alias of the transactions the REST API returns
TerminalAlias == "T1"

\* the instants now_datetime() passes through: <<day, hour of the day>>
ClockTicks == <<<<0, 0>>, <<0, 1>>, <<0, 2>>, <<0, 3>>, <<1, 0>>>>

\* max_past_days of both gates
max_past_days == 90

\* "2025-09-01" on the model's calendar: no modelled date lies before it
since_date == 0

\* get_datetime(raw_time).strftime("%Y-%m-%d")
date_key(dt) == dt[1]

\* x[0] < y[0] on datetimes, the order punches.sort(key=...) uses
TimeLess(a, b) == a[1] < b[1] \/ (a[1] = b[1] /\ a[2] < b[2])

Opposite(l) == IF l = "IN" THEN "OUT" ELSE "IN"

\* every sequence over S of length at most n
SeqsUpTo(S, n) == UNION {[1..k -> S] : k \in 0..n}

\* op(arg), with arg evaluated before op is applied to it
Apply(op(_), arg) == CHOOSE r \in {op(v) : v \in {arg}} : TRUE

VARIABLES
    transactions,   \* the list handed to the normalizer, as the caller built it
    adjusted,       \* the same punches, index for index, after the call mutated them
    returned,       \* the returned list, as indices into the input list
    normCall,       \* which normalizer ran: "none", "nested", "root"
    mapping,        \* the dict handed to detect_log_type, items in order
    detected,       \* what detect_log_type returned, "none" before the call
    employee_table, \* the Employee doctype: its rows and its columns
    fetch           \* a call of fetch_zkteco_transactions, page by page

normVars == <<transactions, adjusted, returned, normCall, mapping, detected,
              employee_table, fetch>>

VARIABLES
    checkins,       \* the Employee Checkin table, rows in creation order
    repairResult,   \* what the last repair pass returned
    repairPrev      \* what the repair pass before it returned

repairVars == <<checkins, repairResult, repairPrev>>

VARIABLES
    clock,                  \* now_datetime()
    device_log,             \* the punches the device holds, in punch order
    cfg,                    \* the ZKTeco Config single, and whether pyzk imported
    cache,                  \* the keys set in frappe.cache()
    last_sync,              \* ZKTeco Config.last_sync
    total_synced_records,   \* ZKTeco Config.total_synced_records
    pc,                     \* where each worker process stands in its sync pass
    entry,                  \* the entry point each worker is in, or was turned away from
    result,                 \* what that call did and returned
    lastPass                \* the last pass that reached its create loop
                            \* since the last punch or tick

syncVars == <<clock, device_log, cfg, cache, last_sync, total_synced_records,
              pc, entry, result, lastPass>>

vars == <<normVars, repairVars, syncVars>>

\* ------------------------------------------------- adjust_checkin_sequence
\* 'log_type' in t and t['log_type'] in ['IN', 'OUT']
HasValidLogType(t) == t.log_type \in {"IN", "OUT"}

\* not (not emp or not raw_time)
Groupable(t) == t.emp_code # NoEmp /\ t.punch_time # NoTime

\* the indices appended to grouped[(emp, date_key)] for the key of punch i
GroupOf(txs, i) ==
    {j \in 1..Len(txs) :
        /\ Groupable(txs[j])
        /\ txs[j].emp_code = txs[i].emp_code
        /\ date_key(txs[j].punch_time) = date_key(txs[i].punch_time)}

\* punches.sort(key=lambda x: x[0]) is stable: ties keep input order
SortsBefore(txs, j, i) ==
    \/ TimeLess(txs[j].punch_time, txs[i].punch_time)
    \/ (txs[j].punch_time = txs[i].punch_time /\ j < i)

\* for every input index, its place when all grouped punches are sorted by
\* time, ties in input order (0 for a punch left out of every group); a
\* stable sort of one group orders its punches as this order does
RECURSIVE SortedPlace(_, _)
SortedPlace(txs, n) ==
    IF n = 0 THEN <<>>
    ELSE Append(SortedPlace(txs, n - 1),
                IF txs[n].emp_code = NoEmp \/ txs[n].punch_time = NoTime THEN 0
                ELSE 1 + Cardinality({j \in 1..Len(txs) :
                            /\ txs[j].emp_code # NoEmp /\ txs[j].punch_time # NoTime
                            /\ SortsBefore(txs, j, n)}))

\* 1-based position of punch i in the sorted list punches of its group S
PosIn(place, S, i) == 1 + Cardinality({j \in S : place[j] < place[i]})

\* punches[k - 1][1], as an input index
PunchAt(place, S, k) == CHOOSE i \in S : PosIn(place, S, i) = k

\* if len(punches) == 1: a punch without a valid label becomes IN
SinglePunchForcesIN(t) == [t EXCEPT !.log_type = "IN", !.sequence_adjusted = TRUE]
single_punch(t) ==
    IF ~HasValidLogType(t)
    THEN [t EXCEPT !.log_type = "IN", !.sequence_adjusted = TRUE]
    ELSE t

\* first = punches[0][1]
first_punch(t) ==
    IF ~HasValidLogType(t)
    THEN [t EXCEPT !.log_type = "IN", !.sequence_adjusted = TRUE]
    ELSE t

\* last = punches[-1][1]
last_punch(t) ==
    IF ~HasValidLogType(t)
    THEN [t EXCEPT !.log_type = "OUT", !.sequence_adjusted = TRUE]
    ELSE t

\* prev_type after the loop body ran for sorted position k (2 <= k <= n-1);
\* prev_type starts as the literal "IN", whatever label the first punch has
RECURSIVE prev_type(_, _, _, _)
prev_type(txs, place, S, k) ==
    IF k = 1 THEN "IN"
    ELSE LET current == txs[PunchAt(place, S, k)]
         IN IF HasValidLogType(current)
            THEN current.log_type
            ELSE Opposite(prev_type(txs, place, S, k - 1))

\* for i in range(1, len(punches) - 1)
MiddleRepeatsPrev(txs, place, S, k) ==
    LET current == txs[PunchAt(place, S, k)]
    IN IF HasValidLogType(current)
       THEN current
       ELSE [current EXCEPT !.log_type = prev_type(txs, place, S, k - 1),
                            !.sequence_adjusted = TRUE]
middle_punch(txs, place, S, k) ==
    LET current == txs[PunchAt(place, S, k)]
    IN IF HasValidLogType(current)
       THEN current
       ELSE [current EXCEPT !.log_type = Opposite(prev_type(txs, place, S, k - 1)),
                            !.sequence_adjusted = TRUE]

\* the dict at input index i after adjust_checkin_sequence(txs) returned
AdjustedPunch(txs, place, i) ==
    IF ~Groupable(txs[i]) THEN txs[i]
    ELSE LET S == GroupOf(txs, i)
             n == Cardinality(S)
             k == PosIn(place, S, i)
         IN IF n = 1 THEN single_punch(txs[i])
            ELSE IF k = 1 THEN first_punch(txs[i])
            ELSE IF k = n THEN last_punch(txs[i])
            ELSE middle_punch(txs, place, S, k)

\* returns the list it was given, mutated in place
adjust_checkin_sequence(txs) ==
    LET place == SortedPlace(txs, Len(txs))
    IN [i \in 1..Len(txs) |-> AdjustedPunch(txs, place, i)]

\* ------------------------------------ adjust_checkin_sequence, root copy
\* punch_time and emp_code != 'unknown'
Groupable_root(t) == t.punch_time # NoTime /\ t.emp_code # NoEmp

\* emp_transactions[emp_code]: grouped by employee alone, over all days
GroupOf_root(txs, i) ==
    {j \in 1..Len(txs) : Groupable_root(txs[j]) /\ txs[j].emp_code = txs[i].emp_code}

\* transaction['log_type'] = 'IN' if i % 2 == 0 else 'OUT' (i is 0-based)
parity_log_type(k) == IF k % 2 = 1 THEN "IN" ELSE "OUT"

AdjustedPunch_root(txs, place, i) ==
    IF ~Groupable_root(txs[i]) THEN txs[i]
    ELSE [txs[i] EXCEPT !.log_type = parity_log_type(PosIn(place, GroupOf_root(txs, i), i)),
                        !.sequence_adjusted = TRUE]

\* emp_transactions.values() lists the employees by first appearance: for
\* every input index, the index at which its employee's list was created
RECURSIVE FirstIndexOf(_, _)
FirstIndexOf(txs, n) ==
    IF n = 0 THEN <<>>
    ELSE LET sofar == FirstIndexOf(txs, n - 1)
             same == {j \in 1..(n - 1) : /\ Groupable_root(txs[j])
                                         /\ txs[j].emp_code = txs[n].emp_code}
         IN Append(sofar, IF same = {} THEN n ELSE sofar[CHOOSE j \in same : TRUE])

\* result.extend per employee, then result.sort(key=_punch_time), stable:
\* for every input index, its 0-based place in the returned list (0 for a
\* transaction that is in no employee's list)
RECURSIVE ReturnedPlace_root(_, _, _)
ReturnedPlace_root(txs, first, n) ==
    IF n = 0 THEN <<>>
    ELSE Append(ReturnedPlace_root(txs, first, n - 1),
                IF ~Groupable_root(txs[n]) THEN 0 ELSE
                Cardinality({j \in 1..Len(txs) :
                    /\ Groupable_root(txs[j])
                    /\ \/ TimeLess(txs[j].punch_time, txs[n].punch_time)
                       \/ /\ txs[j].punch_time = txs[n].punch_time
                          /\ \/ first[j] < first[n]
                             \/ (first[j] = first[n] /\ j < n)}))

\* the returned list of the root copy, as indices into the input
ReturnedOrder_root(txs) ==
    LET G == {i \in 1..Len(txs) : Groupable_root(txs[i])}
        place == ReturnedPlace_root(txs, FirstIndexOf(txs, Len(txs)), Len(txs))
    IN [k \in 1..Cardinality(G) |-> CHOOSE i \in G : place[i] = k - 1]

adjust_checkin_sequence_root(txs) ==
    LET place == SortedPlace(txs, Len(txs))
    IN [i \in 1..Len(txs) |-> AdjustedPunch_root(txs, place, i)]

\* ------------------------------------------------------- repair passes
\* filters of frappe.get_all in fix_all_checkins
InScope_fix_all(row) == row.device_id = FixedDevice /\ row.time[1] >= since_date

\* filters={"device_id": ["like", "%:4370%"]} in fix_existing_checkins
InScope_fix_existing(row) == row.device_id[2] = 4370

\* order_by="employee asc, time asc", then the stable daily_checkins.sort by
\* time: rows of one employee at one time stay in the order the database
\* returned them, modelled as creation order
RowBefore(rows, j, i) ==
    \/ TimeLess(rows[j].time, rows[i].time)
    \/ (rows[j].time = rows[i].time /\ j < i)

\* grouped[(emp, date_key)] for the key of row i, among the rows in scope
DailyCheckins(rows, scope, i) ==
    {j \in scope : /\ rows[j].employee = rows[i].employee
                   /\ date_key(rows[j].time) = date_key(rows[i].time)}

\* idx + 1 of row i in its sorted daily_checkins
DailyIdx(rows, S, i) == 1 + Cardinality({j \in S : RowBefore(rows, j, i)})

\* daily_checkins[k - 1], as a row index
DailyAt(rows, S, k) == CHOOSE i \in S : DailyIdx(rows, S, i) = k

\* correct_log_type of the row at position k (from 1) of the group S
RECURSIVE CorrectFromStoredPrev(_, _, _)
CorrectFromStoredPrev(rows, S, k) ==
    IF k = 1 THEN "IN"
    ELSE IF k = Cardinality(S) THEN "OUT"
    ELSE Opposite(rows[DailyAt(rows, S, k - 1)].log_type)
RECURSIVE correct_log_type(_, _, _)
correct_log_type(rows, S, k) ==
    IF k = 1 THEN "IN"
    ELSE IF k = Cardinality(S) THEN "OUT"
    ELSE Opposite(correct_log_type(rows, S, k - 1))

\* the correct label of row i of the scope
CorrectOf(rows, scope, i) ==
    LET S == DailyCheckins(rows, scope, i)
    IN correct_log_type(rows, S, DailyIdx(rows, S, i))

\* the correct label of every row among the first n (NoLabel outside the scope)
RECURSIVE CorrectLabels(_, _, _)
CorrectLabels(rows, scope, n) ==
    IF n = 0 THEN <<>>
    ELSE Append(CorrectLabels(rows, scope, n - 1),
                IF n \in scope THEN CorrectOf(rows, scope, n) ELSE NoLabel)

\* updates of a pass that only ever corrects a label to OUT
UpdatesToOutOnly(rows, scope, correct) ==
    {i \in scope : rows[i].log_type # correct[i] /\ correct[i] = "OUT"}
\* updates_needed / updates, as row indices
UpdatesNeeded(rows, scope, correct) ==
    {i \in scope : rows[i].log_type # correct[i]}

\* frappe.db.set_value(..., "log_type", correct) for every update
ApplyUpdates(rows, needed, correct) ==
    [i \in 1..Len(rows) |->
        IF i \in needed THEN [rows[i] EXCEPT !.log_type = correct[i]]
        ELSE rows[i]]

\* nothing returned yet
NoRepair == [call |-> "none", dry_run |-> FALSE, updates |-> 0, no_change |-> 0]

\* a repair pass that applies its updates whatever dry_run says
FixAllAlwaysWrites(dry_run) ==
    LET scope == {i \in 1..Len(checkins) : InScope_fix_all(checkins[i])}
        correct == CorrectLabels(checkins, scope, Len(checkins))
        needed == UpdatesNeeded(checkins, scope, correct)
    IN /\ checkins' = ApplyUpdates(checkins, needed, correct)
       /\ repairResult' = [call |-> "fix_all_checkins", dry_run |-> dry_run,
                           updates |-> Cardinality(needed),
                           no_change |-> Cardinality(scope \ needed)]
       /\ repairPrev' = repairResult
       /\ UNCHANGED <<normVars, syncVars>>
\* fix_all_checkins(dry_run); no frappe.db.set_value raises
fix_all_checkins(dry_run) ==
    LET scope == {i \in 1..Len(checkins) : InScope_fix_all(checkins[i])}
        correct == CorrectLabels(checkins, scope, Len(checkins))
        needed == UpdatesNeeded(checkins, scope, correct)
    IN /\ checkins' = IF dry_run THEN checkins
                      ELSE ApplyUpdates(checkins, needed, correct)
       /\ repairResult' = [call |-> "fix_all_checkins", dry_run |-> dry_run,
                           updates |-> Cardinality(needed),
                           no_change |-> Cardinality(scope \ needed)]
       /\ repairPrev' = repairResult
       /\ UNCHANGED <<normVars, syncVars>>

\* fix_existing_checkins()
fix_existing_checkins ==
    LET scope == {i \in 1..Len(checkins) : InScope_fix_existing(checkins[i])}
        correct == CorrectLabels(checkins, scope, Len(checkins))
        needed == UpdatesNeeded(checkins, scope, correct)
    IN /\ checkins' = ApplyUpdates(checkins, needed, correct)
       /\ repairResult' = [call |-> "fix_existing_checkins", dry_run |-> FALSE,
                           updates |-> Cardinality(needed),
                           no_change |-> Cardinality(scope \ needed)]
       /\ repairPrev' = repairResult
       /\ UNCHANGED <<normVars, syncVars>>

\* key = (checkin.employee, str(checkin.time), checkin.log_type)
SameKey(a, b) ==
    a.employee = b.employee /\ a.time = b.time /\ a.log_type = b.log_type

\* the first n rows without the rows whose index is in to_delete
RECURSIVE DeleteDocs(_, _, _)
DeleteDocs(rows, to_delete, n) ==
    IF n = 0 THEN <<>>
    ELSE IF n \in to_delete THEN DeleteDocs(rows, to_delete, n - 1)
    ELSE Append(DeleteDocs(rows, to_delete, n - 1), rows[n])

\* to_delete of a pass that keeps the row it meets last under each key
ToDeleteKeepsLast(rows, scope) ==
    {i \in scope : \E j \in scope : SameKey(rows[j], rows[i]) /\ RowBefore(rows, i, j)}
\* to_delete: in the order employee, time, creation, every row whose key was
\* seen before
ToDelete(rows, scope) ==
    {i \in scope : \E j \in scope : SameKey(rows[j], rows[i]) /\ RowBefore(rows, j, i)}

\* remove_duplicate_checkins(); no frappe.delete_doc raises
remove_duplicate_checkins ==
    \E scope \in {{i \in 1..Len(checkins) : InScope_fix_existing(checkins[i])}} :
    \E to_delete \in {ToDelete(checkins, scope)} :
       /\ checkins' = DeleteDocs(checkins, to_delete, Len(checkins))
       /\ repairResult' = [call |-> "remove_duplicate_checkins", dry_run |-> FALSE,
                           updates |-> Cardinality(to_delete),
                           no_change |-> Cardinality(scope \ to_delete)]
       /\ repairPrev' = repairResult
       /\ UNCHANGED <<normVars, syncVars>>

\* ------------------------------------------------ configuration and idle
\* ZKTeco Config of an API-mode site and of a device-mode site; ZK is the
\* pyzk class the module imported, or None
ApiConfig ==
    [server_ip |-> "111.88.28.220", server_port |-> 8080,
     enable_sync |-> TRUE, token |-> TRUE, ZK |-> TRUE]

DeviceConfig == [ApiConfig EXCEPT !.server_port = 4370]

Configs ==
    {ApiConfig, DeviceConfig,
     [ApiConfig EXCEPT !.enable_sync = FALSE],
     [ApiConfig EXCEPT !.token = FALSE],
     [DeviceConfig EXCEPT !.ZK = FALSE]}

\* a worker that has not called anything yet
NoResult == [outcome |-> "none", contacted |-> FALSE, success |-> "none"]

\* no pass has reached its create loop since the last punch or tick
NoPass ==
    [entry |-> "none", batch |-> <<>>, fault |-> "none",
     results |-> <<>>, inserted |-> 0, raised |-> 0, changed |-> FALSE,
     rerun |-> FALSE, error_count |-> <<>>,
     first_fault |-> "none", first_results |-> <<>>]

\* a site on which nothing has been punched or synced, with the given
\* worker processes
SyncIdle(workers) ==
    /\ clock = ClockTicks[1]
    /\ device_log = <<>>
    /\ cache = {}
    /\ last_sync = NoTime
    /\ total_synced_records = 0
    /\ pc = [w \in workers |-> "idle"]
    /\ entry = [w \in workers |-> "none"]
    /\ result = [w \in workers |-> NoResult]
    /\ lastPass = NoPass

\* no normalizer call is in progress
\* 'next' of a response that names no further page
NoNext == "none"

\* no call of fetch_zkteco_transactions under way
NoFetch ==
    [pages |-> <<>>, current_url |-> NoNext, page_num |-> 0,
     all_transactions |-> <<>>, read |-> <<>>, requests |-> 0,
     status |-> "none", value |-> <<>>]

NormIdle ==
    /\ transactions = <<>>
    /\ adjusted = <<>>
    /\ returned = <<>>
    /\ normCall = "none"
    /\ mapping = <<>>
    /\ detected = "none"
    /\ employee_table = EmployeeDoctype
    /\ fetch = NoFetch

\* no repair pass has run on an empty table
RepairIdle ==
    /\ checkins = <<>>
    /\ repairResult = NoRepair
    /\ repairPrev = NoRepair

\* stored rows a repair pass can meet: any labels, creation in time order
StoredRows ==
    [employee : Employees, time : DateTimes, log_type : {"IN", "OUT"},
     device_id : {FixedDevice, OtherDevice}]

InitRepair ==
    /\ NormIdle
    /\ cfg = DeviceConfig
    /\ SyncIdle({})
    /\ checkins \in {rows \in SeqsUpTo(StoredRows, MaxRows) :
                        \A i \in 1..(Len(rows) - 1) :
                            ~TimeLess(rows[i + 1].time, rows[i].time)}
    /\ repairResult = NoRepair
    /\ repairPrev = NoRepair

FixAll == \E dry_run \in BOOLEAN : fix_all_checkins(dry_run)

FixExisting == fix_existing_checkins

NextRepair == FixAll \/ FixExisting

SpecRepair == InitRepair /\ [][NextRepair]_vars

\* --------------------------------------------- normalizer specification
RawTransactions ==
    [emp_code : EmpCodes, punch_time : DateTimes,
     log_type : {NoLabel, "IN", "OUT"}, sequence_adjusted : {FALSE}]

InitNorm ==
    /\ transactions \in SeqsUpTo(RawTransactions, MaxLen)
    /\ adjusted = <<>>
    /\ returned = <<>>
    /\ normCall = "none"
    /\ mapping = <<>>
    /\ detected = "none"
    /\ employee_table = EmployeeDoctype
    /\ fetch = NoFetch
    /\ RepairIdle
    /\ cfg = DeviceConfig
    /\ SyncIdle({})

Normalize ==
    /\ normCall = "none"
    /\ adjusted' = adjust_checkin_sequence(transactions)
    /\ returned' = [i \in 1..Len(transactions) |-> i]
    /\ normCall' = "nested"
    /\ UNCHANGED <<transactions, mapping, detected, employee_table, fetch,
                   repairVars, syncVars>>

NormalizeRoot ==
    /\ normCall = "none"
    /\ adjusted' = adjust_checkin_sequence_root(transactions)
    /\ returned' = ReturnedOrder_root(transactions)
    /\ normCall' = "root"
    /\ UNCHANGED <<transactions, mapping, detected, employee_table, fetch,
                   repairVars, syncVars>>

NextNorm == Normalize \/ NormalizeRoot

SpecNorm == InitNorm /\ [][NextNorm]_vars

\* batches in which some transactions have neither an employee code nor a
\* time, with or without a label
BatchTransactions ==
    [emp_code : EmpCodes, punch_time : {<<0, 0>>, <<0, 1>>},
     log_type : {NoLabel, "IN", "OUT"}, sequence_adjusted : {FALSE}]
    \cup [emp_code : {NoEmp}, punch_time : {NoTime},
          log_type : {NoLabel, "IN", "OUT"}, sequence_adjusted : {FALSE}]

InitSkip ==
    /\ transactions \in SeqsUpTo(BatchTransactions, MaxLen)
    /\ adjusted = <<>>
    /\ returned = <<>>
    /\ normCall = "none"
    /\ mapping = <<>>
    /\ detected = "none"
    /\ employee_table = EmployeeDoctype
    /\ fetch = NoFetch
    /\ RepairIdle
    /\ cfg = DeviceConfig
    /\ SyncIdle({})

SpecSkip == InitSkip /\ [][NextNorm]_vars

\* what the caller of adjust_checkin_sequence receives: return transactions
\* (return result in the root copy), the list and nothing beside it
ReturnValue ==
    [transactions |-> [k \in 1..Len(returned) |-> adjusted[returned[k]]]]

\* ------------------------------------------------------- the upsert gates
\* a datetime in minutes, for timedelta arithmetic
Minutes(dt) == (dt[1] * 24 + dt[2]) * 60 + (IF Len(dt) > 2 THEN dt[3] ELSE 0)

\* frappe.db.has_column("Employee", column)
has_column(column) == column \in employee_table.columns

\* a lookup that tries user_id before the employee field
FindByUserFirst(emp_code) ==
    IF \E e \in employee_table.rows : e.user_id = emp_code
    THEN (CHOOSE e \in employee_table.rows : e.user_id = emp_code).name
    ELSE IF \E e \in employee_table.rows : e.employee = emp_code
    THEN (CHOOSE e \in employee_table.rows : e.employee = emp_code).name
    ELSE IF /\ has_column("attendance_device_id")
            /\ \E e \in employee_table.rows : e.attendance_device_id = emp_code
    THEN (CHOOSE e \in employee_table.rows : e.attendance_device_id = emp_code).name
    ELSE NoEmployee
\* employee field, then user_id, then attendance_device_id if the column
\* exists
find_employee_by_code(emp_code) ==
    IF \E e \in employee_table.rows : e.employee = emp_code
    THEN (CHOOSE e \in employee_table.rows : e.employee = emp_code).name
    ELSE IF \E e \in employee_table.rows : e.user_id = emp_code
    THEN (CHOOSE e \in employee_table.rows : e.user_id = emp_code).name
    ELSE IF /\ has_column("attendance_device_id")
            /\ \E e \in employee_table.rows : e.attendance_device_id = emp_code
    THEN (CHOOSE e \in employee_table.rows : e.attendance_device_id = emp_code).name
    ELSE NoEmployee

\* ------------------------------------------------------- detect_log_type
\* A str is the sequence of its characters; the Urdu letters are written as
\* their code points.
LowerCase == <<"a", "b", "c", "d", "e", "f", "g", "h", "i", "j", "k", "l", "m", "n", "o", "p", "q", "r", "s", "t", "u", "v", "w", "x", "y", "z">>
UpperCase == <<"A", "B", "C", "D", "E", "F", "G", "H", "I", "J", "K", "L", "M", "N", "O", "P", "Q", "R", "S", "T", "U", "V", "W", "X", "Y", "Z">>
DigitChars == <<"0", "1", "2", "3", "4", "5", "6", "7", "8", "9">>

\* the characters of the strings the rest of the model writes as one token
Chars ==
    "E1" :> <<"E", "1">> @@ "E9" :> <<"E", "9">> @@ "IN" :> <<"I", "N">>
    @@ "OUT" :> <<"O", "U", "T">>

IndexIn(alphabet, c) == CHOOSE i \in 1..Len(alphabet) : alphabet[i] = c
Occurs(alphabet, c) == \E i \in 1..Len(alphabet) : alphabet[i] = c

\* str.upper(), str.lower()
upper(str) ==
    [i \in 1..Len(str) |->
        IF Occurs(LowerCase, str[i]) THEN UpperCase[IndexIn(LowerCase, str[i])]
        ELSE str[i]]
lower(str) ==
    [i \in 1..Len(str) |->
        IF Occurs(UpperCase, str[i]) THEN LowerCase[IndexIn(UpperCase, str[i])]
        ELSE str[i]]

\* str.strip()
RECURSIVE lstrip(_)
lstrip(str) == IF str # <<>> /\ str[1] = " " THEN lstrip(Tail(str)) ELSE str
RECURSIVE rstrip(_)
rstrip(str) ==
    IF str # <<>> /\ str[Len(str)] = " "
    THEN rstrip(SubSeq(str, 1, Len(str) - 1))
    ELSE str
strip_both(str) == rstrip(lstrip(str))
strip(str) == Apply(strip_both, str)

\* x in value_str
Contains(value_str, x) ==
    \E i \in 0..(Len(value_str) - Len(x)) :
        SubSeq(value_str, i + 1, i + Len(x)) = x

\* any(x in value_str for x in indicators)
AnyIn(indicators, value_str) ==
    \E k \in 1..Len(indicators) : Contains(value_str, indicators[k])

\* str(n) of a natural number
RECURSIVE Digits(_)
Digits(n) ==
    IF n < 10 THEN <<DigitChars[n + 1]>>
    ELSE Append(Digits(n \div 10), DigitChars[(n % 10) + 1])

\* the values a transaction mapping holds: None, a str, an int; text is
\* str(value)
None == [type |-> "NoneType", text |-> <<"N", "o", "n", "e">>, num |-> 0]
Str(text) == [type |-> "str", text |-> text, num |-> 0]
IntValue(n) == [type |-> "int", text |-> Digits(n), num |-> n]

\* not value and value not in [0, False]
Skipped(value) ==
    \/ value.type = "NoneType"
    \/ value.type = "str" /\ value.text = <<>>

\* the number a string of decimal digits denotes
RECURSIVE DigitsValue(_)
DigitsValue(str) ==
    IF str = <<>> THEN 0
    ELSE 10 * DigitsValue(SubSeq(str, 1, Len(str) - 1))
         + IndexIn(DigitChars, str[Len(str)]) - 1

\* int(value): the number, or ValueError / TypeError
int(value) ==
    IF value.type = "int" THEN [raised |-> "none", val |-> value.num]
    ELSE IF value.type = "NoneType" THEN [raised |-> "TypeError", val |-> 0]
    ELSE LET str == strip(value.text)
         IN IF str # <<>> /\ \A i \in 1..Len(str) : Occurs(DigitChars, str[i])
            THEN [raised |-> "none", val |-> DigitsValue(str)]
            ELSE [raised |-> "ValueError", val |-> 0]

\* a transaction is a dict: its items in insertion order, each <<key, value>>
HasKey(transaction, key) == \E k \in 1..Len(transaction) : transaction[k][1] = key
Get(transaction, key) ==
    transaction[CHOOSE k \in 1..Len(transaction) : transaction[k][1] = key][2]

\* step 1: the first value, in the mapping's order, that holds an indicator
out_indicators ==
    <<<<"O", "U", "T">>,
      <<"C", "H", "E", "C", "K", " ", "O", "U", "T">>,
      <<"C", "H", "E", "C", "K", "O", "U", "T">>,
      <<"C", "H", "K", " ", "O", "U", "T">>,
      <<"C", "H", "K", "O", "U", "T">>,
      <<"O", "U", "T", "G", "O", "I", "N", "G">>,
      <<"E", "X", "I", "T">>>>
in_indicators ==
    <<<<"I", "N">>,
      <<"C", "H", "E", "C", "K", " ", "I", "N">>,
      <<"C", "H", "E", "C", "K", "I", "N">>,
      <<"C", "H", "K", " ", "I", "N">>,
      <<"C", "H", "K", "I", "N">>,
      <<"E", "N", "T", "R", "Y">>>>

\* the OUT test, then the IN test, on one value_str
DirectIndicator(value_str) ==
    IF AnyIn(out_indicators, value_str) THEN "OUT"
    ELSE IF AnyIn(in_indicators, value_str) THEN "IN"
    ELSE "none"

RECURSIVE direct_indicator(_, _)
direct_indicator(transaction, k) ==
    IF k > Len(transaction) THEN "none"
    ELSE LET value == transaction[k][2]
             found == Apply(DirectIndicator, strip(upper(value.text)))
         IN IF Skipped(value) THEN direct_indicator(transaction, k + 1)
            ELSE IF found # "none" THEN found
            ELSE direct_indicator(transaction, k + 1)

\* step 2: (field_name, is_numeric); out is 'OUT' or 1, in is 'IN' or 0
field_checks ==
    <<<<<<"l", "o", "g", "_", "t", "y", "p", "e">>, FALSE>>,
      <<<<"p", "u", "n", "c", "h", "_", "s", "t", "a", "t", "e">>, TRUE>>,
      <<<<"p", "u", "n", "c", "h">>, TRUE>>,
      <<<<"p", "u", "n", "c", "h", "t", "y", "p", "e">>, TRUE>>,
      <<<<"t", "y", "p", "e">>, FALSE>>,
      <<<<"d", "i", "r", "e", "c", "t", "i", "o", "n">>, FALSE>>,
      <<<<"s", "t", "a", "t", "u", "s">>, FALSE>>,
      <<<<"v", "e", "r", "i", "f", "y", "_", "t", "y", "p", "e">>, TRUE>>>>

\* one field check whose int() error nobody catches
FieldCheckRaises(transaction, field, is_numeric) ==
    IF ~HasKey(transaction, field) \/ Get(transaction, field).type = "NoneType"
    THEN "none"
    ELSE IF is_numeric
    THEN LET val == int(Get(transaction, field))
         IN IF val.raised # "none" THEN val.raised
            ELSE IF val.val = 1 THEN "OUT"
            ELSE IF val.val = 0 THEN "IN"
            ELSE "none"
    ELSE LET val == strip(upper(Get(transaction, field).text))
         IN IF val = Chars["OUT"] THEN "OUT"
            ELSE IF val = Chars["IN"] THEN "IN"
            ELSE "none"
\* one field check: except (ValueError, TypeError) goes on to the next field
field_check(transaction, field, is_numeric) ==
    IF ~HasKey(transaction, field) \/ Get(transaction, field).type = "NoneType"
    THEN "none"
    ELSE IF is_numeric
    THEN LET val == int(Get(transaction, field))
         IN IF val.raised # "none" THEN "none"
            ELSE IF val.val = 1 THEN "OUT"
            ELSE IF val.val = 0 THEN "IN"
            ELSE "none"
    ELSE LET val == strip(upper(Get(transaction, field).text))
         IN IF val = Chars["OUT"] THEN "OUT"
            ELSE IF val = Chars["IN"] THEN "IN"
            ELSE "none"

RECURSIVE standard_fields(_, _)
standard_fields(transaction, k) ==
    IF k > Len(field_checks) THEN "none"
    ELSE LET found == field_check(transaction, field_checks[k][1],
                                  field_checks[k][2])
         IN IF found # "none" THEN found
            ELSE standard_fields(transaction, k + 1)

\* steps 3 and 4 look for these in lower case
out_indicators_lower ==
    <<<<"o", "u", "t">>,
      <<"c", "h", "e", "c", "k", " ", "o", "u", "t">>,
      <<"c", "h", "e", "c", "k", "o", "u", "t">>,
      <<"U+0686", "U+06CC", "U+06A9", " ", "U+0622", "U+0624", "U+0679">>>>
in_indicators_lower ==
    <<<<"i", "n">>,
      <<"c", "h", "e", "c", "k", " ", "i", "n">>,
      <<"c", "h", "e", "c", "k", "i", "n">>,
      <<"U+0686", "U+06CC", "U+06A9", " ", "U+0627", "U+0646">>>>

TextIndicator(value_str) ==
    IF AnyIn(out_indicators_lower, value_str) THEN "OUT"
    ELSE IF AnyIn(in_indicators_lower, value_str) THEN "IN"
    ELSE "none"

\* step 3: str(transaction.get('punch_state_display', '')).lower().strip()
punch_state_display(transaction) ==
    IF HasKey(transaction, <<"p", "u", "n", "c", "h", "_", "s", "t", "a", "t", "e", "_", "d", "i", "s", "p", "l", "a", "y">>)
    THEN Apply(TextIndicator,
               strip(lower(Get(transaction, <<"p", "u", "n", "c", "h", "_", "s", "t", "a", "t", "e", "_", "d", "i", "s", "p", "l", "a", "y">>).text)))
    ELSE "none"

\* step 4: the first value under a key that contains punch, state or type
RECURSIVE punch_state_fields(_, _)
punch_state_fields(transaction, k) ==
    IF k > Len(transaction) THEN "none"
    ELSE LET key_lower == lower(transaction[k][1])
             value == transaction[k][2]
             found == Apply(TextIndicator, Apply(lower, value.text))
         IN IF /\ ~Skipped(value)
               /\ \/ Contains(key_lower, <<"p", "u", "n", "c", "h">>)
                  \/ Contains(key_lower, <<"s", "t", "a", "t", "e">>)
                  \/ Contains(key_lower, <<"t", "y", "p", "e">>)
               /\ found # "none"
            THEN found
            ELSE punch_state_fields(transaction, k + 1)

\* detect_log_type(transaction): the first step that decides, or IN
detect_log_type(transaction) ==
    IF direct_indicator(transaction, 1) # "none"
    THEN direct_indicator(transaction, 1)
    ELSE IF standard_fields(transaction, 1) # "none"
    THEN standard_fields(transaction, 1)
    ELSE IF punch_state_display(transaction) # "none"
    THEN punch_state_display(transaction)
    ELSE IF punch_state_fields(transaction, 1) # "none"
    THEN punch_state_fields(transaction, 1)
    ELSE "IN"

\* the dict behind a transaction of the sync model, keys in the order the
\* REST API sends them; a log_type that is not set is not a key
Items(t) ==
    <<<<<<"i", "d">>, IntValue(t.id)>>,
      <<<<"e", "m", "p", "_", "c", "o", "d", "e">>, Str(Chars[t.emp_code])>>,
      <<<<"p", "u", "n", "c", "h", "_", "t", "i", "m", "e">>,
        Str(Digits(t.punch_time[1]) \o <<" ">> \o Digits(t.punch_time[2]))>>>>
    \o (IF "punch_state_display" \in DOMAIN t
        THEN <<<<<<"p", "u", "n", "c", "h", "_", "s", "t", "a", "t", "e", "_", "d", "i", "s", "p", "l", "a", "y">>, Str(t.punch_state_display)>>>>
        ELSE <<>>)
    \o (IF t.log_type = NoLabel THEN <<>>
        ELSE <<<<<<"l", "o", "g", "_", "t", "y", "p", "e">>, Str(Chars[t.log_type])>>>>)

\* ---------------------------------------------- detector specification
\* keys of the four steps, and one no step names
DetectorKeys ==
    {<<"l", "o", "g", "_", "t", "y", "p", "e">>,
     <<"p", "u", "n", "c", "h", "_", "s", "t", "a", "t", "e">>,
     <<"p", "u", "n", "c", "h", "_", "s", "t", "a", "t", "e", "_", "d", "i", "s", "p", "l", "a", "y">>,
     <<"v", "e", "r", "i", "f", "y", "_", "t", "y", "p", "e">>,
     <<"e", "m", "p", "_", "c", "o", "d", "e">>}

\* null, empty, numbers, numerals, words without and with an indicator
DetectorValues ==
    {None, Str(<<>>), IntValue(0), IntValue(1), IntValue(5),
     Str(<<"1">>), Str(<<"a", "b", "c">>),
     Str(<<"C", "h", "e", "c", "k", " ", "I", "n">>),
     Str(<<"C", "h", "e", "c", "k", " ", "O", "u", "t">>),
     Str(<<"O", "U", "T">>),
     Str(<<"U+0686", "U+06CC", "U+06A9", " ", "U+0622", "U+0624", "U+0679">>)}

\* a dict has every key once
Mappings ==
    {m \in SeqsUpTo(DetectorKeys \X DetectorValues, MaxItems) :
        \A i, j \in 1..Len(m) : i # j => m[i][1] # m[j][1]}

InitDetect ==
    /\ transactions = <<>>
    /\ adjusted = <<>>
    /\ returned = <<>>
    /\ normCall = "none"
    /\ mapping \in Mappings
    /\ employee_table = EmployeeDoctype
    /\ fetch = NoFetch
    /\ detected = "none"
    /\ RepairIdle
    /\ cfg = ApiConfig
    /\ SyncIdle({})

Detect ==
    /\ detected = "none"
    /\ detected' = detect_log_type(mapping)
    /\ UNCHANGED <<transactions, adjusted, returned, normCall, mapping,
                   employee_table, fetch, repairVars, syncVars>>

NextDetect == Detect

SpecDetect == InitDetect /\ [][NextDetect]_vars

\* the label create_employee_checkin stores
GateLabel(transaction) ==
    IF transaction.sequence_adjusted /\ transaction.log_type # NoLabel
    THEN transaction.log_type
    ELSE Apply(detect_log_type, Items(transaction))

\* "device_id": ["like", f"%{device_id}%"] on a stored device_id
DeviceIdEquals(stored, device_id) == stored = <<device_id, 0, 0>>
device_id_like(stored, device_id) == stored[1] = device_id

\* both range checks of create_employee_checkin pass
InApiWindowFirstCheckOnly(punch_time, now) ==
    /\ ~(Minutes(punch_time) > Minutes(now) + 24 * 60)
    /\ ~(Minutes(now) - Minutes(punch_time) > max_past_days * 24 * 60)
InApiWindow(punch_time, now) ==
    /\ ~(Minutes(punch_time) > Minutes(now) + 24 * 60)
    /\ ~(Minutes(now) - Minutes(punch_time) > max_past_days * 24 * 60)
    /\ ~(Minutes(punch_time) > Minutes(now) + 5)
    /\ ~(Minutes(punch_time) < Minutes(now) - max_past_days * 24 * 60)

\* what checkin.insert does in a pass with this fault: it inserts, raises
\* frappe.DuplicateEntryError, or raises another exception
InsertOutcome(fault) ==
    IF fault = "insert" THEN "error"
    ELSE IF fault = "duplicate" THEN "duplicate"
    ELSE "ok"

\* a gate call that writes nothing: it returns ok, or an exception leaves it
Refused(rows, ok, raised) ==
    [rows |-> rows, ok |-> ok, inserted |-> FALSE, raised |-> raised]

\* except frappe.DuplicateEntryError: the handler's log line reads e, which
\* this except clause does not bind, so UnboundLocalError leaves the function
DuplicateEntryError(rows) == Refused(rows, FALSE, TRUE)

\* create_employee_checkin(transaction) on the table rows at time now;
\* insert is what checkin.insert does
create_employee_checkin(rows, transaction, now, insert) ==
    LET employee == find_employee_by_code(transaction.emp_code)
        log_type == GateLabel(transaction)
        existing_checkin ==
            \E i \in 1..Len(rows) :
                /\ rows[i].employee = employee
                /\ rows[i].time = transaction.punch_time
                /\ rows[i].log_type = log_type
                /\ device_id_like(rows[i].device_id, TerminalAlias)
    IN IF transaction.emp_code = NoEmp \/ transaction.punch_time = NoTime
       THEN Refused(rows, FALSE, FALSE)
       ELSE IF ~InApiWindow(transaction.punch_time, now) \/ employee = NoEmployee
       THEN Refused(rows, FALSE, FALSE)
       ELSE IF existing_checkin
       THEN Refused(rows, TRUE, FALSE)
       ELSE IF insert = "duplicate"
       THEN DuplicateEntryError(rows)
       ELSE IF insert = "error"
       THEN Refused(rows, FALSE, FALSE)
       ELSE [rows |-> Append(rows,
                        [employee |-> employee, time |-> transaction.punch_time,
                         log_type |-> log_type,
                         device_id |-> <<TerminalAlias, 0, transaction.id>>]),
             ok |-> TRUE, inserted |-> TRUE, raised |-> FALSE]

\* the range checks of create_checkin_from_attendance_v2 pass
InDeviceWindow(punch_datetime, now) ==
    /\ ~(Minutes(punch_datetime) > Minutes(now) + 5)
    /\ ~(Minutes(punch_datetime) < Minutes(now) - max_past_days * 24 * 60)

\* create_checkin_from_attendance_v2(transaction, device_id)
create_checkin_from_attendance_v2(rows, transaction, device_id, now, insert) ==
    LET employee == find_employee_by_code(transaction.emp_code)
        log_type == IF transaction.log_type = NoLabel THEN "IN"
                    ELSE transaction.log_type
        existing ==
            \E i \in 1..Len(rows) :
                /\ rows[i].employee = employee
                /\ rows[i].time = transaction.punch_time
                /\ rows[i].device_id = device_id
                /\ rows[i].log_type = log_type
    IN IF transaction.emp_code = NoEmp \/ employee = NoEmployee
       THEN Refused(rows, FALSE, FALSE)
       ELSE IF transaction.punch_time = NoTime
       THEN Refused(rows, FALSE, FALSE)
       ELSE IF ~InDeviceWindow(transaction.punch_time, now)
       THEN Refused(rows, FALSE, FALSE)
       ELSE IF existing
       THEN Refused(rows, TRUE, FALSE)
       ELSE IF insert # "ok"
       THEN Refused(rows, FALSE, FALSE)
       ELSE [rows |-> Append(rows,
                        [employee |-> employee, time |-> transaction.punch_time,
                         log_type |-> log_type, device_id |-> device_id]),
             ok |-> TRUE, inserted |-> TRUE, raised |-> FALSE]

\* the table and the gate results after the create loop of entry point e
\* ran over the first k transactions
RECURSIVE CreateLoop(_, _, _, _, _, _)
CreateLoop(e, rows, txs, k, now, insert) ==
    IF k = 0 THEN [rows |-> rows, results |-> <<>>, inserted |-> 0, raised |-> 0]
    ELSE Apply(LAMBDA before :
             Apply(LAMBDA gate :
                 [rows |-> gate.rows,
                  results |-> Append(before.results, gate.ok),
                  inserted |-> before.inserted + (IF gate.inserted THEN 1 ELSE 0),
                  raised |-> before.raised + (IF gate.raised THEN 1 ELSE 0)],
                 IF e = "sync_zkteco_transactions"
                 THEN create_employee_checkin(before.rows, txs[k], now, insert)
                 ELSE create_checkin_from_attendance_v2(
                          before.rows, txs[k],
                          <<cfg.server_ip, cfg.server_port, 0>>, now, insert)),
             CreateLoop(e, rows, txs, k - 1, now, insert))

\* the number of gate calls that returned True
CountTrue(results) == Cardinality({k \in 1..Len(results) : results[k]})

\* the counter of records that were not created, as far as the loop of
\* entry point e keeps one: error_count += 1 in sync_zkteco_transactions;
\* the loops of the device passes count created and nothing else
error_count(e, results) ==
    IF e = "sync_zkteco_transactions"
    THEN <<Len(results) - CountTrue(results)>>
    ELSE <<>>

\* ------------------------------------------------------- the sync passes
LockedEntries == {"sync_zkteco_transactions", "device_mode_sync"}

\* the function that does the work of entry point e: manual_sync hands over
\* to device_mode_sync on port 4370 and to sync_zkteco_transactions otherwise
Callee(e) ==
    IF e # "manual_sync" THEN e
    ELSE IF cfg.server_port = 4370 THEN "device_mode_sync"
    ELSE "sync_zkteco_transactions"

\* lock_key of an entry point
LockKey(e) ==
    IF Callee(e) = "sync_zkteco_transactions" THEN "zkteco_sync_lock"
    ELSE "zkteco_device_sync_lock"

\* what can go wrong in a pass: frappe.get_single raises, the device or the
\* API cannot be reached, checkin.insert raises
Faults == {"none", "config", "connect", "insert"}

\* the transactions the REST API returns for start_time..end_time among the
\* first n punches, each with its transaction id
RECURSIVE fetch_zkteco_transactions(_, _, _)
fetch_zkteco_transactions(n, start_minutes, end_time) ==
    IF n = 0 THEN <<>>
    ELSE LET before == fetch_zkteco_transactions(n - 1, start_minutes, end_time)
             punch == device_log[n]
         IN IF /\ start_minutes <= Minutes(punch.punch_time)
               /\ Minutes(punch.punch_time) <= Minutes(end_time)
            THEN Append(before,
                        [emp_code |-> punch.emp_code,
                         punch_time |-> punch.punch_time,
                         punch_state_display |-> punch.punch_state_display,
                         log_type |-> punch.log_type,
                         sequence_adjusted |-> FALSE, id |-> n])
            ELSE before

\* what fetch_zkteco_transactions returns when the request for a later page
\* fails (one transaction a page): the pages before it
FetchedBeforeFailure(all_transactions) ==
    IF all_transactions = <<>> THEN <<>>
    ELSE SubSeq(all_transactions, 1, Len(all_transactions) - 1)

\* the requests of fetch_zkteco_transactions can fail on the first page or on
\* a later one
FetchFaults == {"none", "connect", "next_page"}

\* checkin.insert can raise frappe.DuplicateEntryError or another exception
InsertFaults == {"insert", "duplicate"}

\* conn.get_attendance() turned into transactions: no log_type key
RECURSIVE get_attendance(_)
get_attendance(n) ==
    IF n = 0 THEN <<>>
    ELSE Append(get_attendance(n - 1),
                [emp_code |-> device_log[n].emp_code,
                 punch_time |-> device_log[n].punch_time,
                 log_type |-> NoLabel, sequence_adjusted |-> FALSE, id |-> 0])

\* the modelled cap of total_synced_records: a device-mode pass counts every
\* punch the device holds again, an API pass only the punches of its window
SyncedCap == IF cfg.server_port = 4370 THEN MaxDeviceSynced ELSE MaxSynced

\* a pass that starts now cannot push total_synced_records past the cap
Room == total_synced_records + Len(device_log) <= SyncedCap

\* "success" of the dict manual_sync returns: device_mode_sync's own dict on
\* port 4370; otherwise True once sync_zkteco_transactions has returned, and
\* False when manual_sync's own except clause was reached
manual_sync(outcome) ==
    IF cfg.server_port = 4370
    THEN IF outcome = "completed" THEN "true" ELSE "false"
    ELSE IF outcome = "exception" THEN "false" ELSE "true"

\* the worker's call of entry point e reaches pc next with this outcome
Return(w, e, next, outcome, contacted) ==
    /\ pc' = [pc EXCEPT ![w] = next]
    /\ entry' = [entry EXCEPT ![w] = IF next = "idle" /\ outcome # "already_running"
                                     THEN "none" ELSE e]
    /\ result' = [result EXCEPT ![w] =
                      [outcome |-> outcome, contacted |-> contacted,
                       success |-> IF e = "manual_sync" THEN manual_sync(outcome)
                                   ELSE "none"]]

\* if frappe.cache().get_value(lock_key): return
AlreadyRunningReleases(w, e) ==
    /\ Return(w, e, "idle", "already_running", FALSE)
    /\ cache' = cache \ {LockKey(e)}
    /\ UNCHANGED <<checkins, last_sync, total_synced_records, lastPass>>
AlreadyRunning(w, e) ==
    /\ Return(w, e, "idle", "already_running", FALSE)
    /\ cache' = cache
    /\ UNCHANGED <<checkins, last_sync, total_synced_records, lastPass>>

\* a return or an exception before any punch is processed
EarlyReturn(w, e, next, outcome, contacted) ==
    /\ Return(w, e, next, outcome, contacted)
    /\ UNCHANGED <<checkins, last_sync, total_synced_records, lastPass>>

\* adjust_checkin_sequence, the create loop and the counters
Process(w, e, next, transactions_fetched, fault) ==
    \E batch \in {transactions_fetched} :
    \E adjusted_batch \in {adjust_checkin_sequence(batch)} :
    \E loop \in {CreateLoop(Callee(e), checkins, adjusted_batch, Len(batch),
                            clock, InsertOutcome(fault))} :
       /\ checkins' = loop.rows
       /\ last_sync' = clock
       /\ total_synced_records' = total_synced_records + CountTrue(loop.results)
       /\ lastPass' = [entry |-> Callee(e), batch |-> batch, fault |-> fault,
                       results |-> loop.results, inserted |-> loop.inserted,
                       raised |-> loop.raised,
                       error_count |-> error_count(Callee(e), loop.results),
                       changed |-> loop.rows # checkins,
                       rerun |-> lastPass.entry = Callee(e)
                                 /\ lastPass.batch = batch,
                       first_fault |-> lastPass.fault,
                       first_results |-> lastPass.results]
       /\ Return(w, e, next, "completed", TRUE)

\* the try block of sync_zkteco_transactions
ApiBody(w, e, next, fault) ==
    IF fault = "config" THEN EarlyReturn(w, e, next, "exception", FALSE)
    ELSE IF cfg.server_port = 4370
    THEN EarlyReturn(w, e, next, "skipped_device_mode", FALSE)
    ELSE IF ~cfg.enable_sync THEN EarlyReturn(w, e, next, "disabled", FALSE)
    ELSE IF ~cfg.token THEN EarlyReturn(w, e, next, "no_token", FALSE)
    ELSE LET start_minutes == IF last_sync = NoTime THEN Minutes(clock) - 60
                              ELSE Minutes(last_sync)
             all_transactions ==
                 fetch_zkteco_transactions(Len(device_log), start_minutes, clock)
         IN Process(w, e, next,
                    IF fault = "connect" THEN <<>>
                    ELSE IF fault = "next_page"
                    THEN FetchedBeforeFailure(all_transactions)
                    ELSE all_transactions,
                    fault)

\* the try block of device_mode_sync
DeviceBody(w, e, next, fault) ==
    IF fault = "config" THEN EarlyReturn(w, e, next, "exception", FALSE)
    ELSE IF cfg.server_port # 4370 THEN EarlyReturn(w, e, next, "wrong_port", FALSE)
    ELSE IF ~cfg.ZK THEN EarlyReturn(w, e, next, "no_library", FALSE)
    ELSE IF fault = "connect" THEN EarlyReturn(w, e, next, "exception", TRUE)
    ELSE Process(w, e, next, get_attendance(Len(device_log)), fault)

\* sync_single_device_mode reported a failure: sync_multiple_devices lists
\* the device as failed and still writes the global last_sync
DeviceFailed(w, e, next, outcome, contacted) ==
    /\ Return(w, e, next, outcome, contacted)
    /\ last_sync' = clock
    /\ UNCHANGED <<checkins, total_synced_records, lastPass>>

\* sync_multiple_devices over a device list that holds the configured device:
\* the try block of sync_single_device_mode, then the global counters
SingleDeviceBody(w, e, next, fault) ==
    IF ~cfg.ZK THEN DeviceFailed(w, e, next, "no_library", FALSE)
    ELSE IF fault = "connect" THEN DeviceFailed(w, e, next, "exception", TRUE)
    ELSE Process(w, e, next, get_attendance(Len(device_log)),
                 IF fault = "insert" THEN fault ELSE "none")

\* the try block of entry point e; in manual_sync frappe.get_single can
\* raise before the callee is reached
TryBlock(w, e, next, fault) ==
    IF e = "manual_sync" /\ fault = "config"
    THEN EarlyReturn(w, e, next, "exception", FALSE)
    ELSE IF Callee(e) = "sync_zkteco_transactions" THEN ApiBody(w, e, next, fault)
    ELSE IF Callee(e) = "device_mode_sync" THEN DeviceBody(w, e, next, fault)
    ELSE SingleDeviceBody(w, e, next, fault)

\* ---------------------------------------- a pass, one statement at a time
\* a worker calls sync_zkteco_transactions or device_mode_sync: the lock check
CheckLock(w, e) ==
    /\ pc[w] = "idle"
    /\ Room
    /\ IF LockKey(e) \in cache
       THEN AlreadyRunning(w, e)
       ELSE /\ EarlyReturn(w, e, "acquire", "none", FALSE)
            /\ cache' = cache
    /\ UNCHANGED <<normVars, repairResult, repairPrev, clock, device_log, cfg>>

\* frappe.cache().set_value(lock_key, "locked", expires_in_sec=300)
AcquireLock(w) ==
    /\ pc[w] = "acquire"
    /\ cache' = cache \cup {LockKey(entry[w])}
    /\ pc' = [pc EXCEPT ![w] = "body"]
    /\ UNCHANGED <<normVars, repairVars, clock, device_log, cfg, last_sync,
                   total_synced_records, entry, result, lastPass>>

\* sync_multiple_devices calls sync_single_device_mode for a port 4370
\* device: no lock is checked or set
StartUnlocked(w) ==
    /\ pc[w] = "idle"
    /\ Room
    /\ cfg.server_port = 4370
    /\ EarlyReturn(w, "sync_single_device_mode", "body", "none", FALSE)
    /\ UNCHANGED <<normVars, repairResult, repairPrev, clock, device_log, cfg,
                   cache>>

\* where the call goes when its try block is left
AfterBodySkipsFinally(e) == "idle"
AfterBody(e) == IF e \in LockedEntries THEN "finally" ELSE "idle"

\* everything between taking the lock and the finally clause
Body(w) ==
    /\ pc[w] = "body"
    /\ \E fault \in Faults :
          TryBlock(w, entry[w], AfterBody(entry[w]), fault)
    /\ UNCHANGED <<normVars, repairResult, repairPrev, clock, device_log, cfg,
                   cache>>

\* finally: frappe.cache().delete_value(lock_key)
ReleaseLock(w) ==
    /\ pc[w] = "finally"
    /\ cache' = cache \ {LockKey(entry[w])}
    /\ pc' = [pc EXCEPT ![w] = "idle"]
    /\ entry' = [entry EXCEPT ![w] = "none"]
    /\ UNCHANGED <<normVars, repairVars, clock, device_log, cfg, last_sync,
                   total_synced_records, result, lastPass>>

\* ------------------------------------------ a pass that nothing interrupts
\* the whole call of entry point e, from its lock check to its return
SyncPass(w, e, fault) ==
    /\ pc[w] = "idle"
    /\ Room
    /\ e = "sync_single_device_mode" => cfg.server_port = 4370
    /\ IF Callee(e) \in LockedEntries /\ LockKey(e) \in cache
       THEN AlreadyRunning(w, e)
       ELSE /\ TryBlock(w, e, "idle", fault)
            /\ cache' = IF Callee(e) \in LockedEntries THEN cache \ {LockKey(e)}
                        ELSE cache
    /\ UNCHANGED <<normVars, repairResult, repairPrev, clock, device_log, cfg>>

\* ------------------------------------------------------- the environment
\* time passes
Tick ==
    /\ \E i \in 1..(Len(ClockTicks) - 1) :
          clock = ClockTicks[i] /\ clock' = ClockTicks[i + 1]
    /\ lastPass' = NoPass
    /\ UNCHANGED <<normVars, repairVars, device_log, cfg, cache, last_sync,
                   total_synced_records, pc, entry, result>>

\* somebody punches; kind is the employee code and the label the REST API
\* will report (the socket protocol's punch value is copied to 'punch' and
\* never read)
PunchShown(kind, display) ==
    /\ Len(device_log) < MaxLog
    /\ cfg.server_port = 4370 => kind[2] = NoLabel
    /\ \A i \in 1..Len(device_log) : device_log[i].punch_time # clock
    /\ device_log' = Append(device_log,
                            [emp_code |-> kind[1], punch_time |-> clock,
                             punch_state_display |-> display,
                             log_type |-> kind[2]])
    /\ lastPass' = NoPass
    /\ UNCHANGED <<normVars, repairVars, clock, cfg, cache, last_sync,
                   total_synced_records, pc, entry, result>>

\* a punch for which the API reports no punch_state_display
Punch(kind) == PunchShown(kind, NoDisplay)

\* ------------------------------------------- sync passes, one after another
\* one worker process runs whole passes, nothing fails, people punch and
\* time passes in between
Init ==
    /\ NormIdle
    /\ RepairIdle
    /\ cfg \in Configs
    /\ SyncIdle({1})

TimePasses == Tick

SomebodyPunches == \E kind \in PunchKinds : Punch(kind)

Entries == LockedEntries \cup {"sync_single_device_mode"}

PassRuns == \E w \in DOMAIN pc, e \in Entries : SyncPass(w, e, "none")

Next == TimePasses \/ SomebodyPunches \/ PassRuns

Spec == Init /\ [][Next]_vars

\* ------------------------------------- API passes in which calls can fail
\* the scheduler runs sync_zkteco_transactions against an API that is not
\* always reachable and a database that can refuse an insert, while an
\* employee punches and time passes
InitFetch ==
    /\ NormIdle
    /\ RepairIdle
    /\ cfg = ApiConfig
    /\ SyncIdle({1})

EmployeePunches == Punch(<<"E1", NoLabel>>)

ApiPassRuns ==
    \E fault \in FetchFaults \cup InsertFaults :
        SyncPass(1, "sync_zkteco_transactions", fault)

NextFetch == TimePasses \/ EmployeePunches \/ ApiPassRuns

SpecFetch == InitFetch /\ [][NextFetch]_vars

\* ------------------------------------------------ API passes over shown states
\* the REST API reports that the terminal displayed "Check Out" for each
\* punch, and for some punches a log_type; nothing fails
DisplayTexts == {<<"C", "h", "e", "c", "k", " ", "O", "u", "t">>}

InitLabel ==
    /\ NormIdle
    /\ RepairIdle
    /\ cfg = ApiConfig
    /\ SyncIdle({1})

ShownPunches ==
    \E log_type \in {NoLabel, "IN"}, display \in DisplayTexts :
        PunchShown(<<"E1", log_type>>, display)

ApiPass == SyncPass(1, "sync_zkteco_transactions", "none")

NextLabel == TimePasses \/ ShownPunches \/ ApiPass

SpecLabel == InitLabel /\ [][NextLabel]_vars

\* ------------------------------------------------------ manual sync calls
\* a user presses the sync button while an employee punches and time passes;
\* reading the configuration can fail
InitManual ==
    /\ NormIdle
    /\ RepairIdle
    /\ cfg \in Configs
    /\ SyncIdle({1})

ManualSyncRuns == \E fault \in {"none", "config"} : SyncPass(1, "manual_sync", fault)

NextManual == TimePasses \/ EmployeePunches \/ ManualSyncRuns

SpecManual == InitManual /\ [][NextManual]_vars

\* ------------------------------------ stored events under every operation
\* events found in the table: one employee, one instant, IN written by
\* either device or by an API pass, OUT written by the configured device
FoundRows ==
    {row \in [employee : Employees, time : {ClockTicks[1]},
              log_type : {"IN", "OUT"},
              device_id : {FixedDevice, OtherDevice, <<TerminalAlias, 0, 1>>}] :
        row.log_type = "OUT" => row.device_id = FixedDevice}

\* a device-mode site with events already stored, no pass running
InitStored ==
    /\ NormIdle
    /\ cfg = DeviceConfig
    /\ SyncIdle({1})
    /\ checkins \in SeqsUpTo(FoundRows, MaxRows)
    /\ repairResult = NoRepair
    /\ repairPrev = NoRepair

RemoveDuplicates == remove_duplicate_checkins

DeviceSync == SyncPass(1, "device_mode_sync", "none")

FixAllWrites == fix_all_checkins(FALSE)

NextStored ==
    RemoveDuplicates \/ FixAllWrites \/ FixExisting \/ DeviceSync
        \/ EmployeePunches

SpecStored == InitStored /\ [][NextStored]_vars

\* ------------------------------------------------ the gates on their own
\* now_datetime() of the gate calls: <<day, hour, minute>>, two days apart
GateTicks == <<<<100, 0, 10>>, <<102, 0, 10>>>>

\* punch times around the edges of the window of the first instant: 4, 5 and
\* 6 minutes after it, 89, 90 and 91 days before it
GatePunchTimes ==
    {<<100, 0, 14>>, <<100, 0, 15>>, <<100, 0, 16>>,
     <<11, 0, 10>>, <<10, 0, 10>>, <<9, 0, 10>>}

\* a normalized transaction of the known employee
GateTransaction(punch_time) ==
    [emp_code |-> "E1", punch_time |-> punch_time, log_type |-> "IN",
     sequence_adjusted |-> TRUE, id |-> 1]

\* an empty table at the first instant, no sync pass running
InitGate ==
    /\ NormIdle
    /\ RepairIdle
    /\ cfg \in {ApiConfig, DeviceConfig}
    /\ clock = GateTicks[1]
    /\ device_log = <<>>
    /\ cache = {}
    /\ last_sync = NoTime
    /\ total_synced_records = 0
    /\ pc = <<>>
    /\ entry = <<>>
    /\ result = <<>>
    /\ lastPass = NoPass

\* one gate call and what it returned, kept in lastPass
GateCall(gate, transaction, g) ==
    /\ Len(checkins) < MaxRows
    /\ checkins' = g.rows
    /\ lastPass' = [NoPass EXCEPT !.entry = gate, !.batch = <<transaction>>,
                                  !.results = <<g.ok>>,
                                  !.inserted = IF g.inserted THEN 1 ELSE 0,
                                  !.changed = g.rows # checkins]
    /\ UNCHANGED <<normVars, repairResult, repairPrev, clock, device_log, cfg,
                   cache, last_sync, total_synced_records, pc, entry, result>>

\* create_employee_checkin(transaction) for a transaction of the REST API
ApiGateCall ==
    /\ cfg = ApiConfig
    /\ \E t \in GatePunchTimes :
          GateCall("create_employee_checkin", GateTransaction(t),
                   create_employee_checkin(checkins, GateTransaction(t), clock,
                                           "ok"))

\* create_checkin_from_attendance_v2(transaction, f"{ip}:{port}") for a
\* record of one of the configured devices
DeviceGateCall ==
    /\ cfg = DeviceConfig
    /\ \E t \in GatePunchTimes, device_id \in {FixedDevice, OtherDevice} :
          GateCall("create_checkin_from_attendance_v2", GateTransaction(t),
                   create_checkin_from_attendance_v2(
                       checkins, GateTransaction(t), device_id, clock, "ok"))

\* two days pass
DaysPass ==
    /\ clock = GateTicks[1]
    /\ clock' = GateTicks[2]
    /\ lastPass' = NoPass
    /\ UNCHANGED <<normVars, repairVars, device_log, cfg, cache, last_sync,
                   total_synced_records, pc, entry, result>>

NextGate == ApiGateCall \/ DeviceGateCall \/ DaysPass

SpecGate == InitGate /\ [][NextGate]_vars

\* --------------------------------------------- the gates' employee lookup
\* the codes a device can report, and "-" for a field that is not set
DeviceCodes == {"E1", "7"}

\* Employee doctypes with up to two employees: each field holds a code or
\* nothing, no two employees share a value of one field, and the custom
\* field attendance_device_id is installed or not
EmployeeRows(name) ==
    [name : {name}, employee : DeviceCodes \cup {"-"},
     user_id : DeviceCodes \cup {"-"},
     attendance_device_id : DeviceCodes \cup {"-"}]

EmployeeDoctypes ==
    {[rows |-> rows, columns |-> columns] :
        rows \in {{}} \cup {{a} : a \in EmployeeRows("EMP-1")}
                 \cup {{a, b} : a \in EmployeeRows("EMP-1"),
                                b \in EmployeeRows("EMP-2")},
        columns \in {{"name", "employee", "user_id"},
                     {"name", "employee", "user_id", "attendance_device_id"}}}

InitEmployee ==
    /\ transactions = <<>>
    /\ adjusted = <<>>
    /\ returned = <<>>
    /\ normCall = "none"
    /\ mapping = <<>>
    /\ detected = "none"
    /\ employee_table \in
          {t \in EmployeeDoctypes :
              \A a, b \in t.rows : a # b =>
                  /\ a.employee = "-" \/ a.employee # b.employee
                  /\ a.user_id = "-" \/ a.user_id # b.user_id
                  /\ \/ a.attendance_device_id = "-"
                     \/ a.attendance_device_id # b.attendance_device_id}
    /\ fetch = NoFetch
    /\ RepairIdle
    /\ cfg \in {ApiConfig, DeviceConfig}
    /\ clock = GateTicks[1]
    /\ device_log = <<>>
    /\ cache = {}
    /\ last_sync = NoTime
    /\ total_synced_records = 0
    /\ pc = <<>>
    /\ entry = <<>>
    /\ result = <<>>
    /\ lastPass = NoPass

\* a normalized transaction of the employee code a device reported, punched now
CodeTransaction(emp_code) == [GateTransaction(clock) EXCEPT !.emp_code = emp_code]

ApiLookupCall ==
    /\ cfg = ApiConfig
    /\ \E emp_code \in DeviceCodes :
          GateCall("create_employee_checkin", CodeTransaction(emp_code),
                   create_employee_checkin(checkins, CodeTransaction(emp_code),
                                           clock, "ok"))

DeviceLookupCall ==
    /\ cfg = DeviceConfig
    /\ \E emp_code \in DeviceCodes :
          GateCall("create_checkin_from_attendance_v2", CodeTransaction(emp_code),
                   create_checkin_from_attendance_v2(
                       checkins, CodeTransaction(emp_code), FixedDevice, clock,
                       "ok"))

NextEmployee == ApiLookupCall \/ DeviceLookupCall

SpecEmployee == InitEmployee /\ [][NextEmployee]_vars

\* ------------------------------------------------- sync passes in parallel
\* the punch made at tick i, of the given kind
PunchAtTick(i, kind) ==
    [emp_code |-> kind[1], punch_time |-> ClockTicks[i],
     punch_state_display |-> NoDisplay, log_type |-> kind[2]]

\* the device holds at most one punch from each of the first two ticks
HeldPunches(kinds) ==
    {<<>>}
    \cup {<<PunchAtTick(i, k)>> : i \in 1..2, k \in kinds}
    \cup {<<PunchAtTick(1, k1), PunchAtTick(2, k2)>> : k1 \in kinds, k2 \in kinds}

\* two worker processes (scheduler and a manual call, or two scheduler
\* runs) call the entry points statement by statement, and calls can fail
InitLock ==
    /\ NormIdle
    /\ RepairIdle
    /\ cfg \in Configs
    /\ clock = ClockTicks[2]
    /\ device_log \in HeldPunches(IF cfg.server_port = 4370
                                   THEN {k \in PunchKinds : k[2] = NoLabel}
                                   ELSE PunchKinds)
    /\ cache = {}
    /\ last_sync = NoTime
    /\ total_synced_records = 0
    /\ pc = [w \in {1, 2} |-> "idle"]
    /\ entry = [w \in {1, 2} |-> "none"]
    /\ result = [w \in {1, 2} |-> NoResult]
    /\ lastPass = NoPass

PassStarts ==
    \E w \in DOMAIN pc :
        \/ \E e \in LockedEntries : CheckLock(w, e)
        \/ StartUnlocked(w)

PassSteps == \E w \in DOMAIN pc : AcquireLock(w) \/ Body(w) \/ ReleaseLock(w)

NextLock == PassStarts \/ PassSteps

SpecLock == InitLock /\ [][NextLock]_vars

\* ---------------------------------------- fetch_zkteco_transactions by page
\* max_pages = 100  # Prevent infinite loops
max_pages == 100

\* the URLs the server answers: base_url and one it names as 'next'
PageUrls == {"base_url", "next_url"}

\* what the server answers under each URL: data with no or one transaction,
\* and 'next' naming no page, another page or the page itself
Pages == [PageUrls -> [transactions : {0, 1}, next : PageUrls \cup {NoNext}]]

\* all_transactions = [], current_url = base_url, before the first request
InitPages ==
    /\ transactions = <<>>
    /\ adjusted = <<>>
    /\ returned = <<>>
    /\ normCall = "none"
    /\ mapping = <<>>
    /\ detected = "none"
    /\ employee_table = EmployeeDoctype
    /\ \E pages \in Pages :
          fetch = [NoFetch EXCEPT !.pages = pages, !.current_url = "base_url",
                                  !.status = "loop"]
    /\ RepairIdle
    /\ cfg = ApiConfig
    /\ SyncIdle({})

\* the for loop over range(max_pages) is exhausted after this iteration
LoopEndsLate(page_num) == page_num + 1 >= max_pages + 1
LoopEnds(page_num) == page_num + 1 >= max_pages

\* one iteration of the loop: the request succeeds
RequestPage ==
    /\ fetch.status = "loop"
    /\ \E page \in {fetch.pages[fetch.current_url]} :
       \E all \in {fetch.all_transactions
                       \o (IF page.transactions = 1 THEN <<fetch.current_url>>
                           ELSE <<>>)} :
          fetch' = IF page.next = NoNext \/ LoopEnds(fetch.page_num)
                   THEN [fetch EXCEPT !.all_transactions = all,
                                      !.read = Append(@, fetch.current_url),
                                      !.requests = @ + 1,
                                      !.status = "returned", !.value = all]
                   ELSE [fetch EXCEPT !.all_transactions = all,
                                      !.read = Append(@, fetch.current_url),
                                      !.requests = @ + 1,
                                      !.current_url = page.next,
                                      !.page_num = @ + 1]
    /\ UNCHANGED <<transactions, adjusted, returned, normCall, mapping, detected,
                   employee_table, repairVars, syncVars>>

\* requests.get times out or raise_for_status / resp.json() raises:
\* return all_transactions if all_transactions else []
RequestFails ==
    /\ fetch.status = "loop"
    /\ fetch' = [fetch EXCEPT !.requests = @ + 1, !.status = "returned",
                              !.value = fetch.all_transactions]
    /\ UNCHANGED <<transactions, adjusted, returned, normCall, mapping, detected,
                   employee_table, repairVars, syncVars>>

NextPages == RequestPage \/ RequestFails

\* every requests.get has timeout=30: a request under way succeeds or fails
SpecPages == InitPages /\ [][NextPages]_vars /\ WF_vars(NextPages)

\* ------------------------------------------------ passes that outlive a lock
\* three passes P1, P2, P3 are called in this order, one per worker process,
\* on a site without punches; a pass can run for longer than the 300
\* seconds its lock lives
InitExpiry ==
    /\ NormIdle
    /\ RepairIdle
    /\ cfg \in {ApiConfig, DeviceConfig}
    /\ clock = ClockTicks[1]
    /\ device_log = <<>>
    /\ cache = {}
    /\ last_sync = NoTime
    /\ total_synced_records = 0
    /\ pc = [w \in {1, 2, 3} |-> "idle"]
    /\ entry = [w \in {1, 2, 3} |-> "none"]
    /\ result = [w \in {1, 2, 3} |-> NoResult]
    /\ lastPass = NoPass

\* the lock check and, with no step of another process in between,
\* frappe.cache().set_value(lock_key, "locked", expires_in_sec=300)
TakeLock(w, e) ==
    /\ pc[w] = "idle"
    /\ result[w] = NoResult
    /\ \A v \in DOMAIN pc : v < w => (pc[v] # "idle" \/ result[v] # NoResult)
    /\ IF LockKey(e) \in cache
       THEN AlreadyRunning(w, e)
       ELSE /\ EarlyReturn(w, e, "body", "none", FALSE)
            /\ cache' = cache \cup {LockKey(e)}
    /\ UNCHANGED <<normVars, repairResult, repairPrev, clock, device_log, cfg>>

\* expires_in_sec=300: the cache drops the key of a pass that is still running
LockExpires ==
    /\ \E w \in DOMAIN pc :
          /\ pc[w] \in {"body", "finally"}
          /\ LockKey(entry[w]) \in cache
          /\ cache' = cache \ {LockKey(entry[w])}
    /\ UNCHANGED <<normVars, repairVars, clock, device_log, cfg, last_sync,
                   total_synced_records, pc, entry, result, lastPass>>

PassTakesLock == \E w \in DOMAIN pc, e \in LockedEntries : TakeLock(w, e)

PassGoesOn == \E w \in DOMAIN pc : Body(w) \/ ReleaseLock(w)

NextExpiry == PassTakesLock \/ PassGoesOn \/ LockExpires

SpecExpiry == InitExpiry /\ [][NextExpiry]_vars

\* ======================================================================
\* Properties of the normalizer (checked under SpecNorm)
\* ======================================================================
\* the (employee, calendar day) group of input punch i, as the claims mean it
DayGroup(i) ==
    {j \in 1..Len(transactions) :
        /\ transactions[j].emp_code # NoEmp /\ transactions[j].punch_time # NoTime
        /\ transactions[j].emp_code = transactions[i].emp_code
        /\ transactions[j].punch_time[1] = transactions[i].punch_time[1]}

InGroups == {i \in 1..Len(transactions) :
                transactions[i].emp_code # NoEmp /\ transactions[i].punch_time # NoTime}

\* j is chronologically before i (equal times: input order)
Chron(j, i) ==
    \/ TimeLess(transactions[j].punch_time, transactions[i].punch_time)
    \/ (transactions[j].punch_time = transactions[i].punch_time /\ j < i)

\* chronological position (from 1) of punch i among the punches of S
ChronPos(S, i) == 1 + Cardinality({j \in S : Chron(j, i)})

\* all punches of the employee of punch i, over every day of the input
EmpPunches(i) == {j \in InGroups : transactions[j].emp_code = transactions[i].emp_code}

InputLabelled(i) == transactions[i].log_type \in {"IN", "OUT"}

C3_TwoPunches ==
    normCall = "nested" =>
        \A i \in InGroups : \A j \in DayGroup(i) :
            (Cardinality(DayGroup(i)) = 2 /\ Chron(i, j)) =>
                (adjusted[i].log_type = "IN" /\ adjusted[j].log_type = "OUT")

SecondRun(call) ==
    /\ repairResult.call = call /\ ~repairResult.dry_run
    /\ repairPrev.call = call /\ ~repairPrev.dry_run

\* C7: a repair pass run a second time directly after its own first run,
\* with no other write in between, finds nothing to update: it performs
\* zero updates, for fix_all_checkins(dry_run=False) and for
\* fix_existing_checkins alike.
C7_RepairIdempotent ==
    \A call \in {"fix_all_checkins", "fix_existing_checkins"} :
        SecondRun(call) => repairResult.updates = 0

\* fix_all_checkins has run a second time after a first run that relabelled
\* a whole group of three rows, the interior one included
C7_Witness ==
    /\ SecondRun("fix_all_checkins")
    /\ repairPrev.updates = 3
    /\ repairResult.no_change = 3

\* ======================================================================
\* Properties of the sync passes (checked under Spec and SpecLock)
\* ======================================================================
\* the stored rows of the employee and day of row i
StoredDay(i) ==
    DailyCheckins(checkins, 1..Len(checkins), i)

\* C1: after any sequence of sync passes, in every (employee, day) with at
\* least two stored rows the chronologically first row is IN and the last is
\* OUT, and a single stored row is IN.
C1_FirstInLastOut ==
    \A i \in 1..Len(checkins) :
        LET S == StoredDay(i)
            k == DailyIdx(checkins, S, i)
        IN /\ k = 1 => checkins[i].log_type = "IN"
           /\ (k = Cardinality(S) /\ k > 1) => checkins[i].log_type = "OUT"

\* C6: after any sequence of device-mode passes over a punch list that only
\* grows, no two stored rows have the same employee and the same time.
C6_OneRowPerPunch ==
    cfg.server_port = 4370 =>
        \A i, j \in 1..Len(checkins) :
            (/\ checkins[i].employee = checkins[j].employee
             /\ checkins[i].time = checkins[j].time) => i = j

\* both runs went through without an exception
BothRunsClean ==
    lastPass.rerun /\ lastPass.fault = "none" /\ lastPass.first_fault = "none"

\* the gate of the pass has an employee for the punch and the punch time is
\* inside the gate's window
Acceptable(transaction) ==
    /\ find_employee_by_code(transaction.emp_code) # NoEmployee
    /\ IF lastPass.entry = "sync_zkteco_transactions"
       THEN InApiWindow(transaction.punch_time, clock)
       ELSE InDeviceWindow(transaction.punch_time, clock)

Processing(w) == pc[w] \in {"body", "finally"}

\* C8: no two sync passes on the same lock key, and no two passes over the
\* same device, are processing at the same time.
C8_MutualExclusion ==
    \A w1, w2 \in DOMAIN pc :
        (/\ Processing(w1) /\ Processing(w2)
         /\ LockKey(entry[w1]) = LockKey(entry[w2])) => w1 = w2

\* worker w took a step
Stepped(w) ==
    <<pc[w], entry[w], result[w]>>' # <<pc[w], entry[w], result[w]>>

\* C9: a call of a locking entry point that finds the lock key set returns at
\* once reporting that a sync is already running: it contacts nothing, leaves
\* the table, last_sync and total_synced_records as they are, and leaves the
\* lock set.
C9_AlreadyRunning ==
    [][\A w \in DOMAIN pc :
          (/\ pc[w] = "idle" /\ Stepped(w)
           /\ entry'[w] \in LockedEntries
           /\ LockKey(entry'[w]) \in cache)
          => /\ pc'[w] = "idle"
             /\ result'[w].outcome = "already_running"
             /\ ~result'[w].contacted
             /\ UNCHANGED <<checkins, last_sync, total_synced_records, cache>>]_vars

\* a worker was turned away while the other was processing under the lock
C9_Witness ==
    \E w1, w2 \in DOMAIN pc :
        /\ result[w1].outcome = "already_running" /\ pc[w1] = "idle"
        /\ pc[w2] = "body" /\ entry[w2] = entry[w1]
        /\ LockKey(entry[w1]) \in cache

\* C10: a pass that took the lock has deleted it when it returns, whichever
\* way it leaves its try block.
C10_LockReleased ==
    [][\A w \in DOMAIN pc :
          (/\ Processing(w) /\ entry[w] \in LockedEntries
           /\ pc'[w] = "idle")
          => LockKey(entry[w]) \notin cache']_vars

\* a pass under the lock has ended in an exception, and the lock is gone
C10_Witness ==
    \E w \in DOMAIN pc :
        /\ pc[w] = "idle" /\ result[w].outcome = "exception"
        /\ result[w].contacted
        /\ cache = {}

\* ------------------------------------------------ properties of API passes
\* the transactions of the window a pass that starts now asks the API for
WindowNow ==
    fetch_zkteco_transactions(Len(device_log),
                              IF last_sync = NoTime THEN Minutes(clock) - 60
                              ELSE Minutes(last_sync),
                              clock)

\* the pass that just ran lost a request and got less than its window holds
FetchFailed ==
    /\ lastPass' # lastPass
    /\ lastPass'.fault \in {"connect", "next_page"}
    /\ Len(lastPass'.batch) < Len(WindowNow)

\* C11: a sync_zkteco_transactions pass whose fetch fails (on the first page
\* or on a later one) leaves the stored last_sync as it was.
C11_CheckpointKept == [][FetchFailed => last_sync' = last_sync]_vars

\* ---------------------------------------------------- properties of the gates
\* a gate was just called on its own
GateCalled ==
    lastPass.entry \in {"create_employee_checkin",
                        "create_checkin_from_attendance_v2"}

\* minutes from now to the punch of the last gate call (negative: in the past)
PunchOffset == Minutes(lastPass.batch[1].punch_time) - Minutes(clock)

\* a stored row has the employee and time of the punch of the last gate call
MatchStored ==
    \E i \in 1..Len(checkins) :
        /\ checkins[i].employee = find_employee_by_code(lastPass.batch[1].emp_code)
        /\ checkins[i].time = lastPass.batch[1].punch_time

DuplicateRaised ==
    lastPass.entry = "sync_zkteco_transactions" /\ lastPass.fault = "duplicate"

\* C13: when checkin.insert raises a duplicate-entry error in
\* create_employee_checkin, the call returns success as for a stored match:
\* no exception leaves the function and the pass counts the record as
\* processed and goes on to the next record.
C13_DuplicateIsSuccess ==
    DuplicateRaised =>
        /\ lastPass.raised = 0
        /\ Len(lastPass.results) = Len(lastPass.batch)
        /\ \A k \in 1..Len(lastPass.batch) :
              Acceptable(lastPass.batch[k]) => lastPass.results[k]

\* ------------------------------------------------ properties of manual_sync
\* manual_sync has returned to its caller
ManualReturned == result[1].success # "none"

\* C14: with sync disabled or no token configured, manual_sync in API mode
\* returns success = false, fetches nothing and creates no attendance event.
C14_ManualFailure ==
    (/\ ManualReturned
     /\ cfg.server_port # 4370
     /\ ~cfg.enable_sync \/ ~cfg.token)
        => /\ result[1].success = "false"
           /\ ~result[1].contacted
           /\ checkins = <<>>

\* ------------------------------------------------ properties of the dry run
\* the label a day's k-th event of n should carry: first IN, last OUT,
\* alternating in between
PositionLabel(k, n) ==
    IF k = 1 THEN "IN"
    ELSE IF k = n THEN "OUT"
    ELSE IF k % 2 = 1 THEN "IN" ELSE "OUT"

\* the stored events fix_all_checkins looks at whose label is not the one
\* their position in the employee's day calls for
Mislabelled(rows) ==
    LET scope == {i \in 1..Len(rows) : InScope_fix_all(rows[i])}
    IN {i \in scope :
           LET S == DailyCheckins(rows, scope, i)
           IN rows[i].log_type # PositionLabel(DailyIdx(rows, S, i), Cardinality(S))}

DryRunReturned ==
    repairResult.call = "fix_all_checkins" /\ repairResult.dry_run

InsertedByLastPass == (Len(checkins) - lastPass.inserted + 1)..Len(checkins)

\* the punch of the last pass's batch that row i was created from
SourceOf(i) ==
    CHOOSE k \in 1..Len(lastPass.batch) : lastPass.batch[k].id = checkins[i].device_id[3]

\* C16: the label an API-mode pass stores for a punch is the log_type
\* adjust_checkin_sequence left on it, also for a punch whose valid label the
\* normalizer kept.
C16_StoredLabelIsNormalized ==
    lastPass.entry = "sync_zkteco_transactions" =>
        \A i \in InsertedByLastPass :
            checkins[i].log_type =
                adjust_checkin_sequence(lastPass.batch)[SourceOf(i)].log_type

\* ------------------------------------- properties of the returned collection
\* C17: adjust_checkin_sequence returns the punches it was given, index for
\* index in input order, whatever their timestamps: none dropped, none moved.
C17_InputOrder ==
    normCall # "none" =>
        /\ returned = [i \in 1..Len(transactions) |-> i]
        /\ \A i \in 1..Len(transactions) :
              /\ adjusted[i].emp_code = transactions[i].emp_code
              /\ adjusted[i].punch_time = transactions[i].punch_time

\* ----------------------------------------- properties across punch sources
\* C18: two punches of one employee with the same timestamp and the same
\* label are stored as one event, also when they come from different
\* devices: the gate finds the first and inserts nothing for the second.
C18_OneEventAcrossSources ==
    \A i, j \in 1..Len(checkins) :
        (/\ checkins[i].employee = checkins[j].employee
         /\ checkins[i].time = checkins[j].time
         /\ checkins[i].log_type = checkins[j].log_type) => i = j

\* ------------------------------------------- properties of detect_log_type
\* the fields step 2 reads as numbers
NumericFields ==
    {field_checks[k][1] : k \in {j \in 1..Len(field_checks) : field_checks[j][2]}}

\* a word that, in any letter case, is part of every IN or OUT indicator
\* written in Latin letters
IndicatorCores == {<<"O", "U", "T">>, <<"E", "X", "I", "T">>, <<"I", "N">>, <<"E", "N", "T", "R", "Y">>}

\* an item no rule of steps 1-4 can match: a null or empty value, or a value
\* without any indicator that is not 0 or 1 under a numeric field
Silent(item) ==
    \/ Skipped(item[2])
    \/ /\ \A core \in IndicatorCores : ~Contains(upper(item[2].text), core)
       /\ \A k \in 1..Len(out_indicators_lower) :
              /\ ~Contains(item[2].text, out_indicators_lower[k])
              /\ ~Contains(item[2].text, in_indicators_lower[k])
       /\ item[1] \in NumericFields =>
              (int(item[2]).raised # "none" \/ int(item[2]).val \notin {0, 1})

\* C19: detect_log_type returns IN or OUT for every mapping, also an empty
\* one and one with null, empty or non-numeric values, and returns IN when
\* no rule of steps 1-4 matches.
C19_Total ==
    detected # "none" =>
        /\ detected \in {"IN", "OUT"}
        /\ (\A k \in 1..Len(mapping) : Silent(mapping[k])) => detected = "IN"

\* a mapping with a null value and a non-numeric value in a numeric field
\* went through and came out IN
C19_Witness ==
    /\ detected = "IN"
    /\ Len(mapping) = 2
    /\ \E k \in 1..2 : mapping[k][2] = None
    /\ \E k \in 1..2 : /\ mapping[k][1] \in NumericFields
                        /\ int(mapping[k][2]).raised = "ValueError"

\* a value that step 1 reads and that holds an OUT indicator
HoldsOut(value) ==
    ~Skipped(value) /\ AnyIn(out_indicators, strip(upper(value.text)))

\* C20: when any field value of the transaction holds an OUT keyword the
\* result is OUT, even when an earlier field holds only an IN keyword.
C20_OutScanFirst ==
    (/\ detected # "none"
     /\ \E k \in 1..Len(mapping) : HoldsOut(mapping[k][2]))
        => detected = "OUT"

\* ------------------------------------------ properties of the employee lookup
\* the r-th lookup finds employee e under the code: 1 the employee field,
\* 2 user_id, 3 attendance_device_id where that column exists
LookupMatches(e, emp_code, r) ==
    \/ r = 1 /\ e.employee = emp_code
    \/ r = 2 /\ e.user_id = emp_code
    \/ r = 3 /\ "attendance_device_id" \in employee_table.columns
             /\ e.attendance_device_id = emp_code

\* the employees the first matching lookup finds for the code
FirstMatch(emp_code) ==
    {e.name : e \in {x \in employee_table.rows :
        \E r \in 1..3 :
            /\ LookupMatches(x, emp_code, r)
            /\ \A y \in employee_table.rows, q \in 1..(r - 1) :
                  ~LookupMatches(y, emp_code, q)}}

\* C21: the gate books a punch on the employee found by the first lookup
\* that matches, in the order employee field, user_id, attendance_device_id
\* (only where that column exists); when no lookup matches the gate rejects
\* the punch and writes no row.
C21_LookupOrder ==
    GateCalled =>
        LET emp_code == lastPass.batch[1].emp_code
        IN IF FirstMatch(emp_code) = {}
           THEN ~lastPass.results[1] /\ ~lastPass.changed
           ELSE /\ lastPass.results[1]
                /\ Cardinality(FirstMatch(emp_code)) = 1
                /\ lastPass.inserted = 1 =>
                       checkins[Len(checkins)].employee \in FirstMatch(emp_code)
                /\ \E i \in 1..Len(checkins) :
                       checkins[i].employee \in FirstMatch(emp_code)

\* one employee carries the code as user_id, another as employee number, and
\* the punch was booked on the second
C21_Witness ==
    /\ GateCalled
    /\ lastPass.inserted = 1
    /\ \E a, b \in employee_table.rows :
          /\ a.user_id = lastPass.batch[1].emp_code
          /\ b.employee = lastPass.batch[1].emp_code
          /\ a # b
          /\ checkins[Len(checkins)].employee = b.name

\* -------------------------------------------- properties of stored events
\* how often the row occurs in the table
Occurrences(rows, row) == Cardinality({i \in 1..Len(rows) : rows[i] = row})

\* the rows remove_duplicate_checkins looks at, as indices
DedupeScope(rows) == {i \in 1..Len(rows) : rows[i].device_id[2] = 4370}

\* the table after a duplicate removal on the table before: no key twice in
\* scope, the earliest-created row of every key is there, rows out of scope
\* and rows with a key of their own are there as often as before, and no
\* row is new
Deduplicated(before, after) ==
    /\ \A i, j \in DedupeScope(after) : SameKey(after[i], after[j]) => i = j
    /\ \A i \in DedupeScope(before) :
          (\A j \in DedupeScope(before) : SameKey(before[j], before[i]) => i <= j)
              => Occurrences(after, before[i]) >= 1
    /\ \A i \in 1..Len(before) :
          (\/ i \notin DedupeScope(before)
           \/ \A j \in DedupeScope(before) : SameKey(before[j], before[i]) => i = j)
              => Occurrences(after, before[i]) = Occurrences(before, before[i])
    /\ \A k \in 1..Len(after) : Occurrences(before, after[k]) >= 1
    /\ Len(after) = Len(before)
           - Cardinality({i \in DedupeScope(before) :
                 \E j \in DedupeScope(before) : j < i /\ SameKey(before[j], before[i])})

\* every stored event is still stored, at most its label changed
NothingDeleted(before, after) ==
    /\ Len(after) >= Len(before)
    /\ \A i \in 1..Len(before) :
          /\ after[i].employee = before[i].employee
          /\ after[i].time = before[i].time
          /\ after[i].device_id = before[i].device_id

RepairScope(rows, call) ==
    {i \in 1..Len(rows) :
        IF call = "fix_all_checkins"
        THEN rows[i].device_id = FixedDevice /\ rows[i].time[1] >= since_date
        ELSE rows[i].device_id[2] = 4370}

\* the label the position of row i in its (employee, day) group calls for
LabelByPosition(rows, scope, i) ==
    LET S == {j \in scope : /\ rows[j].employee = rows[i].employee
                             /\ rows[j].time[1] = rows[i].time[1]}
    IN PositionLabel(DailyIdx(rows, S, i), Cardinality(S))

WritingRepair == fix_all_checkins(FALSE) \/ fix_existing_checkins

OneUnlabelledGroup ==
    /\ Len(transactions) >= 1
    /\ \A i \in 1..Len(transactions) :
          /\ transactions[i].emp_code # NoEmp
          /\ transactions[i].punch_time # NoTime
          /\ transactions[i].emp_code = transactions[1].emp_code
          /\ transactions[i].punch_time[1] = transactions[1].punch_time[1]
          /\ transactions[i].log_type = NoLabel

\* the returned punches stored as they are, in the order returned
StoredAsReturned ==
    [k \in 1..Len(returned) |->
        [employee |-> "EMP-1", time |-> adjusted[returned[k]].punch_time,
         log_type |-> adjusted[returned[k]].log_type, device_id |-> FixedDevice]]

\* C24: for one complete (employee, day) group of punches without labels,
\* adjust_checkin_sequence assigns every punch the label the repair pass
\* computes for it, so a repair pass over the punches stored with the
\* normalizer's labels finds nothing to update.
C24_RepairAgrees ==
    (normCall # "none" /\ OneUnlabelledGroup) =>
        LET rows == StoredAsReturned
            scope == {i \in 1..Len(rows) : InScope_fix_all(rows[i])}
        IN UpdatesNeeded(rows, scope, CorrectLabels(rows, scope, Len(rows))) = {}

\* ------------------------------------------- properties of interior punches
\* the punches strictly between the first and the last of a group of three
\* or more
Interior ==
    {i \in InGroups : /\ Cardinality(DayGroup(i)) >= 3
                       /\ ChronPos(DayGroup(i), i) > 1
                       /\ ChronPos(DayGroup(i), i) < Cardinality(DayGroup(i))}

\* the punch immediately before punch i in its group
Predecessor(i) ==
    CHOOSE j \in DayGroup(i) : ChronPos(DayGroup(i), j) = ChronPos(DayGroup(i), i) - 1

\* C25: after the adjust_checkin_sequence hooks.py names, an interior punch
\* that carried a valid IN or OUT label keeps it, and an interior punch
\* without one carries the opposite of the label its chronological
\* predecessor ended with (a kept label counts as the previous label).
C25_InteriorFollowsPredecessor ==
    normCall = "nested" =>
        \A i \in Interior :
            adjusted[i].log_type =
                IF InputLabelled(i) THEN transactions[i].log_type
                ELSE Opposite(adjusted[Predecessor(i)].log_type)

\* ---------------------------------------- properties of skipped transactions
\* input transactions with neither an employee code nor a time
MissingBoth ==
    {i \in 1..Len(transactions) :
        transactions[i].emp_code = NoEmp /\ transactions[i].punch_time = NoTime}

\* the input without those transactions
WithoutMissing ==
    SelectSeq(transactions, LAMBDA t : ~(t.emp_code = NoEmp /\ t.punch_time = NoTime))

\* the index of input transaction i in WithoutMissing
IndexWithoutMissing(i) == Cardinality((1..i) \ MissingBoth)

\* the labels the same copy gives when the input holds no such transaction
LabelsWithoutMissing ==
    IF normCall = "root" THEN adjust_checkin_sequence_root(WithoutMissing)
    ELSE adjust_checkin_sequence(WithoutMissing)

\* a transaction without employee code and time is in no group: it keeps
\* its label fields, and every other punch is labelled as if it were not
\* in the input
SkippedApart ==
    normCall # "none" =>
        /\ \A i \in MissingBoth :
              /\ adjusted[i].log_type = transactions[i].log_type
              /\ adjusted[i].sequence_adjusted = transactions[i].sequence_adjusted
        /\ \A i \in (1..Len(transactions)) \ MissingBoth :
              adjusted[i] = LabelsWithoutMissing[IndexWithoutMissing(i)]

\* C26: a transaction missing both employee code and timestamp is in no
\* group of the normalization pass, keeps its label fields, changes no
\* other punch's label, and the caller receives the number of such
\* transactions as a skipped count.
C26_SkippedCounted ==
    /\ SkippedApart
    /\ (normCall # "none" /\ MissingBoth # {}) =>
          /\ "skipped" \in DOMAIN ReturnValue
          /\ ReturnValue["skipped"] = Cardinality(MissingBoth)

\* ------------------------------------------- properties of failing records
\* the records of the pass for which the gate returned False or raised
FailedRecords(pass) == {k \in 1..Len(pass.results) : ~pass.results[k]}

\* a pass went through its create loop and at least one record failed
PassWithFailure ==
    /\ lastPass' # lastPass
    /\ lastPass'.entry # "none"
    /\ \E k \in 1..Len(lastPass'.batch) :
          k > Len(lastPass'.results) \/ ~lastPass'.results[k]

\* the pass went on after the failure: every record of the batch has a gate
\* result, and the table is the table before the pass followed by the
\* events the pass inserted
PassWentOn ==
    /\ Len(lastPass'.results) = Len(lastPass'.batch)
    /\ Len(checkins') = Len(checkins) + lastPass'.inserted
    /\ SubSeq(checkins', 1, Len(checkins)) = checkins
    /\ \E w \in DOMAIN result : result'[w].outcome = "completed"

\* C27: a record of a sync pass that fails (employee not found, timestamp
\* out of the window, exception in the store) does not abort the pass: the
\* later records are processed, the events stored before stay stored, and
\* the pass counts the record as failed.
C27_FailureCounted ==
    [][PassWithFailure =>
          /\ PassWentOn
          /\ lastPass'.error_count
                 = <<Cardinality(FailedRecords(lastPass'))>>]_vars

\* ------------------------------------------------ properties of the counter
\* C28: the created count of a sync pass is the number of attendance events
\* the pass inserted, and total_synced_records, to which every pass adds its
\* count, is the number of events the passes so far have inserted (every
\* stored event, on a site that started empty).
C28_CounterIsInserted ==
    /\ lastPass.entry # "none" => CountTrue(lastPass.results) = lastPass.inserted
    /\ total_synced_records = Len(checkins)

\* ------------------------------------------ properties of an expired lock
\* pass v runs under the lock key of pass w and was called after it
LaterPass(w, v) ==
    /\ v > w
    /\ pc[v] \in {"body", "finally"}
    /\ LockKey(entry[v]) = LockKey(entry[w])

\* C29: a pass releases only the lock it set itself: when its finally
\* clause runs while a pass that was called later holds the lock (the
\* first pass's lock having expired), the lock stays set.
C29_ReleasesOwnLock ==
    [][\A w \in DOMAIN pc :
          (/\ pc[w] = "finally" /\ pc'[w] = "idle"
           /\ LockKey(entry[w]) \in cache
           /\ \E v \in DOMAIN pc : LaterPass(w, v))
          => LockKey(entry[w]) \in cache']_vars

\* ------------------------------------------------ properties of the fetch
\* the transactions of the pages read, in the order read
RECURSIVE TransactionsOf(_, _)
TransactionsOf(read, n) ==
    IF n = 0 THEN <<>>
    ELSE TransactionsOf(read, n - 1)
            \o (IF fetch.pages[read[n]].transactions = 1 THEN <<read[n]>> ELSE <<>>)

\* C30: fetch_zkteco_transactions always returns: it issues at most
\* max_pages requests, also when every response names a next page, and it
\* returns the transactions of the pages read so far, also when a request
\* fails.
C30_FetchTerminates ==
    /\ [](fetch.requests <= max_pages)
    /\ <>(fetch.status = "returned")
    /\ [](fetch.status = "returned" =>
             fetch.value = TransactionsOf(fetch.read, Len(fetch.read)))

\* the server sent base_url and next_url in a cycle, one transaction a
\* page: the call returned after max_pages requests with their transactions
C30_Witness ==
    /\ fetch.status = "returned"
    /\ fetch.requests = max_pages
    /\ Len(fetch.value) = max_pages
    /\ fetch.pages["base_url"].next = "next_url"
    /\ fetch.pages["next_url"].next = "base_url"

====
